---------------------------- MODULE Spec2Model ----------------------------
(***************************************************************************)
(* A model of the GitHub stars MCP server: the batch repository details    *)
(* tool (tools/batch_repo_details.py), the starred repository list tool    *)
(* (tools/starred_repo_list.py), the analysis bundle                       *)
(* (tools/analysis_bundle.py), the single repository tool                  *)
(* (tools/repo_details.py), the GraphQL client (utils/github_client.py)    *)
(* and the username validator (common/validators.py).                      *)
(*                                                                         *)
(* Strings the code inspects character by character (repository           *)
(* identifiers) are sequences of one-character strings.  Python's None is  *)
(* the string "NoneVal".                                                   *)
(***************************************************************************)
EXTENDS Integers, Sequences, FiniteSets, TLC

(***************************************************************************)
(* Bounds of the model.                                                    *)
(***************************************************************************)
\* longest identifier drawn character by character
MaxNameLen == 3
\* most distinct identifiers (per-item tasks) of one batch call
MaxTasks == 3
\* longest identifier list handed to the batch tool
MaxListLen == 101
\* distinct repository ids the data source knows
MaxIds == 2
\* longest username drawn character by character
MaxUserLen == 3
\* the clock's last value, in seconds
MaxTime == 600

(***************************************************************************)
(* Program constants.                                                      *)
(***************************************************************************)
\* batch_repo_details.py:22  len(repository_names) > 50
MAX_BATCH == 50
\* batch_repo_details.py:134  max_concurrent > 20
MAX_CONCURRENT == 20
\* batch_repo_details.py:134  max_concurrent < 1
MIN_CONCURRENT == 1
\* analysis_bundle.py:237, 246  most_common(10), most_common(15)
TOP_LANGUAGES == 10
TOP_TOPICS == 15
\* validators.py:26  len(username) > 39
MAX_USERNAME_LEN == 39
\* the maximum batch size the specification and test_boundary_values state
SPEC_MAX_BATCH == 100
\* analysis_bundle.py:113  max_repositories < 1 or max_repositories > 200
MIN_REPOSITORIES == 1
MAX_REPOSITORIES == 200
\* analysis_bundle.py:90-91  the defaults of max_repositories, concurrent_requests
DEFAULT_MAX_REPOSITORIES == 100
DEFAULT_CONCURRENT == 10
\* github_client.py:26  starredRepositories(first: 100 ...)
PAGE_SIZE == 100
\* github_client.py:126  self._cache_ttl = 300
CACHE_TTL == 300
\* github_client.py:129  stop=stop_after_attempt(3)
STOP_AFTER_ATTEMPT == 3

Chars == {"a", "b", "/", " "}

Names == UNION {[1..n -> Chars] : n \in 0..MaxNameLen}

(***************************************************************************)
(* Python string operations on character sequences.                        *)
(***************************************************************************)
RECURSIVE LStrip(_)
LStrip(s) == IF s = <<>> THEN s
             ELSE IF Head(s) = " " THEN LStrip(Tail(s)) ELSE s

RECURSIVE RStrip(_)
RStrip(s) == IF s = <<>> THEN s
             ELSE IF s[Len(s)] = " " THEN RStrip(SubSeq(s, 1, Len(s) - 1)) ELSE s

\* str.strip()
Strip(s) == RStrip(LStrip(s))

\* "/" in s
HasSlash(s) == \E i \in 1..Len(s) : s[i] = "/"

\* index of the first "/" of s (0 when there is none)
FirstSlash(s) == IF HasSlash(s)
                 THEN CHOOSE i \in 1..Len(s) : s[i] = "/" /\ \A j \in 1..(i - 1) : s[j] # "/"
                 ELSE 0

\* str.split("/"): every segment between slashes
RECURSIVE SplitAll(_)
SplitAll(s) == IF ~HasSlash(s) THEN <<s>>
               ELSE <<SubSeq(s, 1, FirstSlash(s) - 1)>>
                    \o SplitAll(SubSeq(s, FirstSlash(s) + 1, Len(s)))

\* str.split("/", 1): at most one split, at the first slash
SplitFirst(s) == IF ~HasSlash(s) THEN <<s>>
                 ELSE <<SubSeq(s, 1, FirstSlash(s) - 1), SubSeq(s, FirstSlash(s) + 1, Len(s))>>

\* list(dict.fromkeys(xs)): first occurrences, in order
Dedupe(xs) ==
    LET firsts == {i \in 1..Len(xs) : \A j \in 1..(i - 1) : xs[j] # xs[i]}
        nth(k) == CHOOSE i \in firsts : Cardinality({j \in firsts : j < i}) = k - 1
    IN  [k \in 1..Cardinality(firsts) |-> xs[nth(k)]]

(***************************************************************************)
(* validate_repository_names (batch_repo_details.py:17-40).                *)
(***************************************************************************)
\* line 35 as a bug would have it: the emptiness of the segments forgotten
SegmentsOkLax(parts) == Len(parts) = 2

\* line 35: len(parts) != 2 or not parts[0] or not parts[1] is the failure
SegmentsOk(parts) == Len(parts) = 2 /\ parts[1] # <<>> /\ parts[2] # <<>>

\* lines 27-36 for one entry: "ok", or the ValueError it raises
NameCheck(repo_name) ==
    IF repo_name = <<>> \/ Strip(repo_name) = <<>> THEN "Repository name cannot be empty"
    ELSE IF ~HasSlash(Strip(repo_name)) THEN "Invalid repository name format"
    ELSE IF ~SegmentsOk(SplitAll(Strip(repo_name))) THEN "Invalid repository name format"
    ELSE "ok"

\* the whole validator: ok with the stripped names, or the first ValueError
validate_repository_names(repository_names_arg) ==
    IF repository_names_arg = <<>>
    THEN [ok |-> FALSE, names |-> <<>>, msg |-> "Repository names list cannot be empty"]
    ELSE IF Len(repository_names_arg) > MAX_BATCH
    THEN [ok |-> FALSE, names |-> <<>>, msg |-> "Cannot process more than 50 repositories at once"]
    ELSE IF \E i \in 1..Len(repository_names_arg) : NameCheck(repository_names_arg[i]) # "ok"
    THEN [ok |-> FALSE, names |-> <<>>,
          msg |-> NameCheck(repository_names_arg[
                     CHOOSE i \in 1..Len(repository_names_arg) :
                        /\ NameCheck(repository_names_arg[i]) # "ok"
                        /\ \A j \in 1..(i - 1) : NameCheck(repository_names_arg[j]) = "ok"])]
    ELSE [ok |-> TRUE,
          names |-> [i \in 1..Len(repository_names_arg) |-> Strip(repository_names_arg[i])],
          msg |-> "ok"]

(***************************************************************************)
(* The data models the batch tool builds (models.py).                      *)
(***************************************************************************)
\* the fields get_batch_repo_details passes (batch_repo_details.py:176-181),
\* here as the fields the response model would have to declare to accept them
BatchResponseFieldsPassed ==
    {"repository_details", "total_count", "success_count", "error_count"}

\* the response model as a bug would have it: "data" given a default
BatchRepositoryDetailsResponseFieldsOptional == {}

\* models.py:91-95: the required fields of BatchRepositoryDetailsResponse
BatchRepositoryDetailsResponseFields == {"data"}

\* pydantic: constructing a model succeeds iff every required field is passed
\* (fields the model does not declare are ignored)
BatchResponseConstructs == BatchRepositoryDetailsResponseFields \subseteq BatchResponseFieldsPassed

\* the names bound in module batch_repo_details (lines 3-14 and its own defs)
BatchModuleGlobals ==
    {"asyncio", "datetime", "structlog", "Context", "GitHubAPIError", "ValidationError",
     "BatchRepositoryDetailsResponse", "RepositoryDetails", "mcp", "logger",
     "validate_repository_names", "fetch_single_repository_details",
     "get_batch_repo_details"}

(***************************************************************************)
(* The README data source as fetch_single_repository_details sees it.      *)
(* A reply kind is what github_client.get_repository_readme does:          *)
(*   "text"  the dict of github_client.py:301-306 (README found)           *)
(*   "none"  the dict of github_client.py:350-355 (no README)              *)
(*   "error" the dict of github_client.py:359-364 (the query raised, e.g.  *)
(*           a transport failure; the client catches it)                   *)
(*   "raise" the call itself raises (a substituted client, as in tests)    *)
(***************************************************************************)
ReplyKinds == {"text", "none", "error", "raise"}

TransportFailures == {"error", "raise"}

\* the dict get_repository_readme returns for a reply kind that returns
ReadmeDict(kind) ==
    IF kind = "text"
    THEN [content |-> "README", has_readme |-> TRUE, error |-> "NoneVal"]
    ELSE IF kind = "none"
    THEN [content |-> "NoneVal", has_readme |-> FALSE, error |-> "NoneVal"]
    ELSE [content |-> "NoneVal", has_readme |-> FALSE, error |-> "query failed"]

\* lines 74-92: the locals after the inner try
ReadmeLocals(kind) ==
    IF kind = "raise"
    THEN [readme_data |-> "NoneVal", has_readme |-> FALSE, fetch_error |-> "raised"]
    ELSE [readme_data |-> ReadmeDict(kind).content,
          has_readme |-> ReadmeDict(kind).has_readme,
          fetch_error |-> ReadmeDict(kind).error]

NoResult == [kind |-> "pending", readme_content |-> "NoneVal"]
NoneResult == [kind |-> "None", readme_content |-> "NoneVal"]
CancelledResult == [kind |-> "CancelledError", readme_content |-> "NoneVal"]

\* lines 94-108: Repository.model_validate needs the name Repository; a
\* NameError is caught by the outer except and the function returns None.
\* RepositoryDetails (models.py:83-88) keeps readme_content only.
FetchResult(kind) ==
    IF "Repository" \in BatchModuleGlobals
    THEN [kind |-> "details", readme_content |-> ReadmeLocals(kind).readme_data]
    ELSE NoneResult

(***************************************************************************)
(* asyncio.Semaphore as used by "async with semaphore" (line 50).          *)
(***************************************************************************)
\* an acquire that never waits
SemAlwaysFree(value) == TRUE

\* an acquire that needs a second free slot
SemAvailableAboveOne(value) == value > 1

\* acquire returns at once only while the value is positive
SemAvailable(value) == value > 0

\* __aexit__ as a bug would have it: no release when the body is cancelled
ExitSemaphoreLeaky(value, how) == IF how = "cancel" THEN value ELSE value + 1

\* __aexit__ releases however the body ends: "return" or "cancel"
ExitSemaphore(value, how) == value + 1

(***************************************************************************)
(* State.                                                                  *)
(***************************************************************************)
VARIABLES
    \* get_batch_repo_details
    bpc,                \* "idle", "starting" (line 141), "gather" (159), "returned", "raised"
    repository_names,   \* the argument
    max_concurrent,     \* the argument
    github_client,      \* shared.github_client: "none" or "client"
    unique_names,       \* line 139
    semaphore,          \* the value of the semaphore of line 149
    tpc,                \* per task: "new", "info" (52), "readme" (80), "done", "cancelled"
    treply,             \* per task: the reply kind its README fetch got, or "pending"
    tresult,            \* per task: what gather collects for it
    cancel_requested,   \* the caller was cancelled while it awaited gather
    readme_calls,       \* get_repository_readme calls issued
    bresult,            \* the response returned
    berror,             \* the exception raised: [type, msg]
    \* the starred list tool and the analysis bundle
    source,             \* the data source: its pages of starred repositories
    upc,                \* "idle", "fetching" (line 129), "convert" (134), "returned", "raised"
    op,                 \* the tool called: "none", "list" or "bundle"
    max_repositories,   \* the bundle's argument
    concurrent_requests,\* the bundle's argument
    page_requests,      \* the cursors of the page requests made to the client
    starred,            \* what get_user_starred_repositories returned or raised
    uerror,             \* the exception the tool called raised: [type, msg]
    \* one tool or function called on its own, down to the HTTP replies
    tool,               \* "none", "list", "details", "validate", "bundle_except",
                        \* "query" or "current_user"
    username,           \* the username argument
    repo_id,            \* the repo_id argument
    current_user_cache, \* GitHubClient._current_user_cache: "none" or the viewer kept
    current_user_cache_time, \* GitHubClient._current_user_cache_time, -1 for None
    now,                \* time.time(), in seconds
    requests,           \* the data-source requests the last call issued, in order
    inner_error,        \* the exception the code called raised: [type, msg]
    call_result         \* the last call's outcome: [ok, type, msg, value]

batchVars == <<bpc, repository_names, max_concurrent, github_client, unique_names,
               semaphore, tpc, treply, tresult, cancel_requested, readme_calls,
               bresult, berror>>

bundleVars == <<source, upc, op, max_repositories, concurrent_requests, page_requests,
                starred, uerror>>

toolVars == <<tool, username, repo_id, current_user_cache, current_user_cache_time,
              now, requests, inner_error, call_result>>

vars == <<batchVars, bundleVars, toolVars>>

\* an exception is [type, msg], its message a sequence of pieces of text
NoExc == [type |-> "none", msg |-> <<>>]
NoOutcome == [ok |-> FALSE, type |-> "none", msg |-> <<>>, value |-> <<>>]

NoError == [type |-> "none", msg |-> "none"]
NoResponse == [repository_details |-> <<>>, total_count |-> 0,
               success_count |-> 0, error_count |-> 0]

(***************************************************************************)
(* Inputs of the batch tool.                                               *)
(***************************************************************************)
\* the i-th of a family of distinct well-formed identifiers: "a/a", "aa/a", ...
PadName(i) == [j \in 1..i |-> "a"] \o <<"/", "a">>

\* n distinct well-formed identifiers
DistinctList(n) == [i \in 1..n |-> PadName(i)]

\* lists of one well-formed identifier repeated, of every length up to the bound
LongLists == {[i \in 1..n |-> PadName(1)] : n \in 0..MaxListLen}

\* up to MaxTasks distinct well-formed identifiers
DistinctLists == {DistinctList(n) : n \in 1..MaxTasks}

\* one or two identifiers, one of them any string at all
CulpritLists ==
    UNION {{[DistinctList(n) EXCEPT ![p] = nm] : p \in 1..n, nm \in Names} : n \in 1..2}

InputLists == LongLists \cup DistinctLists \cup CulpritLists

ConcurrencyValues == {MIN_CONCURRENT - 1, MIN_CONCURRENT, MIN_CONCURRENT + 1,
                      MAX_CONCURRENT, MAX_CONCURRENT + 1}

Tasks == DOMAIN tpc

\* the tasks inside "async with semaphore"
Holding == {i \in Tasks : tpc[i] \in {"info", "readme"}}

(***************************************************************************)
(* The starred repositories data source (github_client.py:197-233) and     *)
(* get_user_starred_repositories (starred_repo_list.py:36-121).            *)
(* A cursor is 0 for "no cursor" and k for the end cursor of page k.       *)
(***************************************************************************)
Ids == 1..MaxIds

Edge(i, nm) == [id |-> i, nameWithOwner |-> nm]

\* repository i under its usual name
CanonEdge(i) == Edge(i, PadName(i))

\* first pages: empty, one repository of any name, or two repositories
Page1Edges ==
    {<<>>} \cup {<<Edge(1, nm)>> : nm \in Names}
           \cup {<<CanonEdge(i), CanonEdge(j)>> : i, j \in Ids}

\* second pages: one repository, new or already on the first page
Page2Edges == {<<CanonEdge(1)>>, <<CanonEdge(MaxIds)>>}

Sources ==
    {<<[edges |-> e1, hasNextPage |-> h1, endCursor |-> 1],
       [edges |-> e2, hasNextPage |-> h2, endCursor |-> 2]>> :
        e1 \in Page1Edges, h1 \in BOOLEAN, e2 \in Page2Edges, h2 \in BOOLEAN}

\* github_client.py:228-230: nothing found
EmptyPage == [edges |-> <<>>, hasNextPage |-> FALSE, endCursor |-> 0]

\* the starredRepositories object the client returns for a cursor
PageAt(src, cursor) == IF cursor + 1 \in DOMAIN src THEN src[cursor + 1] ELSE EmptyPage

\* what the client call does: return the page, or raise one of these
ClientOutcomes == {"page", "AuthenticationError", "RateLimitError", "GitHubAPIError",
                   "Exception"}

\* the names models.py binds
ModelsModuleNames ==
    {"StartedRepository", "StartedRepoWithReadme", "StarredRepositoriesResponse",
     "StarredRepositoriesWithReadmeResponse", "RepositoryDetails",
     "BatchRepositoryDetailsResponse", "LanguageStats", "TopicStats", "StarStats",
     "AnalysisBundle"}

\* starred_repo_list.py:74-101: one edge becomes one StartedRepository; line 77
\* unpacks split("/", maxsplit=1) into name, owner in that order
ParseEdge(edge) ==
    [repo_id |-> edge.id,
     name_with_owner |-> edge.nameWithOwner,
     name |-> SplitFirst(edge.nameWithOwner)[1],
     owner |-> SplitFirst(edge.nameWithOwner)[2]]

NoStarred == [ok |-> FALSE, repositories |-> <<>>, total_count |-> 0,
              has_next_page |-> FALSE, end_cursor |-> 0, error |-> "none"]

StarredError(type) == [NoStarred EXCEPT !.error = type]

\* starred_repo_list.py:58-121: the response, or the exception that leaves
\* the tool (error # "none")
get_user_starred_repositories(client, outcome, page) ==
    IF client = "none" THEN StarredError("AuthenticationError")
    ELSE IF outcome = "Exception" THEN StarredError("GitHubAPIError")
    ELSE IF outcome # "page" THEN StarredError(outcome)
    ELSE IF \E k \in 1..Len(page.edges) : ~HasSlash(page.edges[k].nameWithOwner)
    THEN StarredError("GitHubAPIError")
    ELSE [ok |-> TRUE,
          repositories |-> [k \in 1..Len(page.edges) |-> ParseEdge(page.edges[k])],
          total_count |-> Len(page.edges),
          has_next_page |-> page.hasNextPage,
          end_cursor |-> page.endCursor,
          error |-> "none"]

BundleIdle ==
    /\ upc = "idle"
    /\ op = "none"
    /\ max_repositories = 0
    /\ concurrent_requests = 0
    /\ page_requests = <<>>
    /\ starred = NoStarred
    /\ uerror = NoError

BatchInit ==
    /\ bpc = "idle"
    /\ repository_names = <<>>
    /\ max_concurrent = 0
    /\ github_client \in {"none", "client"}
    /\ unique_names = <<>>
    /\ semaphore = 0
    /\ tpc = <<>>
    /\ treply = <<>>
    /\ tresult = <<>>
    /\ cancel_requested = FALSE
    /\ readme_calls = 0
    /\ bresult = NoResponse
    /\ berror = NoError

ToolsIdle ==
    /\ tool = "none"
    /\ username = <<>>
    /\ repo_id = <<>>
    /\ current_user_cache = "none"
    /\ current_user_cache_time = -1
    /\ now = 0
    /\ requests = <<>>
    /\ inner_error = NoExc
    /\ call_result = NoOutcome

Init == BatchInit /\ BundleIdle /\ ToolsIdle /\ source = <<>>

(***************************************************************************)
(* get_batch_repo_details (batch_repo_details.py:111-192).                 *)
(***************************************************************************)
\* lines 127-141: the call, the validation of both parameters, the dedupe
BatchCall(names, mc) ==
    /\ UNCHANGED <<bundleVars, toolVars>>
    /\ bpc = "idle"
    /\ repository_names' = names
    /\ max_concurrent' = mc
    /\ LET v == validate_repository_names(names)
       IN  IF ~v.ok
           THEN /\ bpc' = "raised"
                /\ berror' = [type |-> "ValidationError", msg |-> v.msg]
                /\ unique_names' = unique_names
           ELSE IF mc < MIN_CONCURRENT \/ mc > MAX_CONCURRENT
           THEN /\ bpc' = "raised"
                /\ berror' = [type |-> "ValidationError",
                              msg |-> "max_concurrent must be between 1-20"]
                /\ unique_names' = unique_names
           ELSE /\ bpc' = "starting"
                /\ berror' = berror
                /\ unique_names' = Dedupe(v.names)
    /\ UNCHANGED <<github_client, semaphore, tpc, treply, tresult, cancel_requested,
                   readme_calls, bresult>>

\* lines 143-159: the client check, the semaphore, one task per unique name
BatchSpawn ==
    /\ UNCHANGED <<bundleVars, toolVars>>
    /\ bpc = "starting"
    /\ IF github_client = "none"
       THEN /\ bpc' = "raised"
            /\ berror' = [type |-> "GitHubAPIError", msg |-> "GitHub client not initialized"]
            /\ UNCHANGED <<semaphore, tpc, treply, tresult>>
       ELSE /\ bpc' = "gather"
            /\ semaphore' = max_concurrent
            /\ tpc' = [i \in 1..Len(unique_names) |-> "new"]
            /\ treply' = [i \in 1..Len(unique_names) |-> "pending"]
            /\ tresult' = [i \in 1..Len(unique_names) |-> NoResult]
            /\ berror' = berror
    /\ UNCHANGED <<repository_names, max_concurrent, github_client, unique_names,
                   cancel_requested, readme_calls, bresult>>

\* a child that runs on although its batch was cancelled
ChildContinuesDetached(cancelled) == TRUE

\* line 159: cancelling the caller cancels gather, which cancels every child
\* at once; a child whose cancellation was requested is resumed with
\* CancelledError at the await it stands at and takes no further step of its
\* own code
ChildContinues(cancelled) == ~cancelled

\* line 50: a task enters "async with semaphore" and awaits ctx.info (line 52)
TaskAcquire(i) ==
    /\ UNCHANGED <<bundleVars, toolVars>>
    /\ bpc = "gather"
    /\ ChildContinues(cancel_requested)
    /\ tpc[i] = "new"
    /\ SemAvailable(semaphore)
    /\ semaphore' = semaphore - 1
    /\ tpc' = [tpc EXCEPT ![i] = "info"]
    /\ UNCHANGED <<bpc, repository_names, max_concurrent, github_client, unique_names,
                   treply, tresult, cancel_requested, readme_calls, bresult, berror>>

\* lines 55-80: the name is split and the README request is issued
TaskIssue(i) ==
    /\ UNCHANGED <<bundleVars, toolVars>>
    /\ bpc = "gather"
    /\ ChildContinues(cancel_requested)
    /\ tpc[i] = "info"
    /\ tpc' = [tpc EXCEPT ![i] = "readme"]
    /\ readme_calls' = readme_calls + 1
    /\ UNCHANGED <<bpc, repository_names, max_concurrent, github_client, unique_names,
                   semaphore, treply, tresult, cancel_requested, bresult, berror>>

\* lines 80-108: the README call returns or raises, the result is built, the
\* function returns and leaves "async with"
TaskReadme(i, kind) ==
    /\ UNCHANGED <<bundleVars, toolVars>>
    /\ bpc = "gather"
    /\ ChildContinues(cancel_requested)
    /\ tpc[i] = "readme"
    /\ treply' = [treply EXCEPT ![i] = kind]
    /\ tresult' = [tresult EXCEPT ![i] = FetchResult(kind)]
    /\ tpc' = [tpc EXCEPT ![i] = "done"]
    /\ semaphore' = ExitSemaphore(semaphore, "return")
    /\ UNCHANGED <<bpc, repository_names, max_concurrent, github_client, unique_names,
                   cancel_requested, readme_calls, bresult, berror>>

\* the caller is cancelled at an await: at line 141 the CancelledError leaves
\* the function at once; at line 159 gather cancels every child and finishes
\* when all of them have
BatchCancel ==
    /\ UNCHANGED <<bundleVars, toolVars>>
    /\ bpc \in {"starting", "gather"}
    /\ ~cancel_requested
    /\ cancel_requested' = TRUE
    /\ IF bpc = "starting"
       THEN /\ bpc' = "raised"
            /\ berror' = [type |-> "CancelledError", msg |-> "cancelled"]
       ELSE UNCHANGED <<bpc, berror>>
    /\ UNCHANGED <<repository_names, max_concurrent, github_client, unique_names,
                   semaphore, tpc, treply, tresult, readme_calls, bresult>>

\* a cancelled child: CancelledError is raised at its await; it is no
\* Exception, so neither except clause catches it, and "async with" is left
TaskCancelled(i) ==
    /\ UNCHANGED <<bundleVars, toolVars>>
    /\ bpc = "gather"
    /\ cancel_requested
    /\ tpc[i] \in {"new", "info", "readme"}
    /\ tpc' = [tpc EXCEPT ![i] = "cancelled"]
    /\ tresult' = [tresult EXCEPT ![i] = CancelledResult]
    /\ semaphore' = IF tpc[i] = "new" THEN semaphore ELSE ExitSemaphore(semaphore, "cancel")
    /\ UNCHANGED <<bpc, repository_names, max_concurrent, github_client, unique_names,
                   treply, cancel_requested, readme_calls, bresult, berror>>

\* lines 162-174: the successful entries, in the order of unique_names
RECURSIVE SuccessfulDetails(_, _)
SuccessfulDetails(results, n) ==
    IF n = 0 THEN <<>>
    ELSE IF results[n].kind = "details"
         THEN Append(SuccessfulDetails(results, n - 1),
                     [name |-> unique_names[n], readme_content |-> results[n].readme_content])
         ELSE SuccessfulDetails(results, n - 1)

\* lines 159-192: gather is done; the results are counted and the response built
BatchCollect ==
    /\ UNCHANGED <<bundleVars, toolVars>>
    /\ bpc = "gather"
    /\ \A i \in Tasks : tpc[i] \in {"done", "cancelled"}
    /\ IF cancel_requested
       THEN /\ bpc' = "raised"
            /\ berror' = [type |-> "CancelledError", msg |-> "cancelled"]
            /\ bresult' = bresult
       ELSE IF BatchResponseConstructs
       THEN /\ bpc' = "returned"
            /\ berror' = berror
            /\ bresult' =
                 LET ok == SuccessfulDetails(tresult, Len(unique_names))
                 IN  [repository_details |-> ok,
                      total_count |-> Len(unique_names),
                      success_count |-> Len(ok),
                      error_count |-> Len(unique_names) - Len(ok)]
       ELSE /\ bpc' = "raised"
            /\ berror' = [type |-> "GitHubAPIError",
                          msg |-> "Batch repository details fetch failed"]
            /\ bresult' = bresult
    /\ UNCHANGED <<repository_names, max_concurrent, github_client, unique_names,
                   semaphore, tpc, treply, tresult, cancel_requested, readme_calls>>

\* a caller invokes the tool with some list and some limit
BatchCallAny ==
    /\ bpc = "idle"
    /\ \E names \in InputLists, mc \in ConcurrencyValues : BatchCall(names, mc)

Next ==
    \/ BatchCallAny
    \/ BatchSpawn
    \/ \E i \in Tasks : TaskAcquire(i)
    \/ \E i \in Tasks : TaskIssue(i)
    \/ \E i \in Tasks, kind \in ReplyKinds : TaskReadme(i, kind)
    \/ BatchCancel
    \/ \E i \in Tasks : TaskCancelled(i)
    \/ BatchCollect

Spec == Init /\ [][Next]_vars

(***************************************************************************)
(* The starred list tool called directly, and                              *)
(* create_starred_repo_analysis_bundle (analysis_bundle.py:86-304).        *)
(***************************************************************************)
\* the tool get_user_starred_repositories, called with a cursor
StarredToolCall(cursor, outcome) ==
    /\ upc = "idle"
    /\ op' = "list"
    /\ page_requests' = IF github_client = "none" THEN page_requests
                        ELSE Append(page_requests, cursor)
    /\ LET r == get_user_starred_repositories(github_client, outcome, PageAt(source, cursor))
       IN  /\ starred' = r
           /\ upc' = IF r.ok THEN "returned" ELSE "raised"
           /\ uerror' = IF r.ok THEN uerror
                        ELSE [type |-> r.error, msg |-> "starred repositories"]
    /\ UNCHANGED <<source, max_repositories, concurrent_requests>>
    /\ UNCHANGED <<batchVars, toolVars>>

\* analysis_bundle.py:112-124: the call and the validation of the parameters
BundleCall(mr, cr) ==
    /\ upc = "idle"
    /\ op' = "bundle"
    /\ max_repositories' = mr
    /\ concurrent_requests' = cr
    /\ IF mr < MIN_REPOSITORIES \/ mr > MAX_REPOSITORIES
       THEN /\ upc' = "raised"
            /\ uerror' = [type |-> "ValueError",
                          msg |-> "max_repositories must be between 1 and 200"]
       ELSE IF cr < MIN_CONCURRENT \/ cr > MAX_CONCURRENT
       THEN /\ upc' = "raised"
            /\ uerror' = [type |-> "ValueError",
                          msg |-> "concurrent_requests must be between 1 and 20"]
       ELSE /\ upc' = "fetching"
            /\ uerror' = uerror
    /\ UNCHANGED <<source, page_requests, starred>>
    /\ UNCHANGED <<batchVars, toolVars>>

\* analysis_bundle.py:127-132 and 296-297: step 1, the one call of
\* get_user_starred_repositories, with no cursor; a GitHubAPIError (or a
\* subclass) leaves the bundle unchanged
BundleFetch(outcome) ==
    /\ upc = "fetching"
    /\ page_requests' = IF github_client = "none" THEN page_requests
                        ELSE Append(page_requests, 0)
    /\ LET r == get_user_starred_repositories(github_client, outcome, PageAt(source, 0))
       IN  /\ starred' = r
           /\ upc' = IF r.ok THEN "convert" ELSE "raised"
           /\ uerror' = IF r.ok THEN uerror
                        ELSE [type |-> r.error, msg |-> "starred repositories"]
    /\ UNCHANGED <<source, op, max_repositories, concurrent_requests>>
    /\ UNCHANGED <<batchVars, toolVars>>

\* analysis_bundle.py:134-159 and 298-304: the import of Repository from
\* ..models raises ImportError, which the bundle re-raises as GitHubAPIError;
\* were the name there, step 2 (line 186) would follow
BundleConvert ==
    /\ upc = "convert"
    /\ IF "Repository" \notin ModelsModuleNames
       THEN /\ upc' = "raised"
            /\ uerror' = [type |-> "GitHubAPIError", msg |-> "Failed to create analysis bundle"]
       ELSE /\ upc' = "details"
            /\ uerror' = uerror
    /\ UNCHANGED <<source, op, max_repositories, concurrent_requests, page_requests,
                   starred>>
    /\ UNCHANGED <<batchVars, toolVars>>

BundleArguments ==
    {<<mr, DEFAULT_CONCURRENT>> :
        mr \in {MIN_REPOSITORIES - 1, MIN_REPOSITORIES, MIN_REPOSITORIES + 1,
                DEFAULT_MAX_REPOSITORIES, MAX_REPOSITORIES + 1}}
    \cup {<<DEFAULT_MAX_REPOSITORIES, cr>> : cr \in {MIN_CONCURRENT - 1, MAX_CONCURRENT + 1}}

BundleInit ==
    /\ BatchInit
    /\ BundleIdle
    /\ ToolsIdle
    /\ source \in Sources

\* a caller invokes the list tool with some cursor
StarredToolCallAny ==
    /\ upc = "idle"
    /\ \E cursor \in 0..1, outcome \in ClientOutcomes : StarredToolCall(cursor, outcome)

\* a caller invokes the bundle with some arguments
BundleCallAny ==
    /\ upc = "idle"
    /\ \E a \in BundleArguments : BundleCall(a[1], a[2])

NextBundle ==
    \/ StarredToolCallAny
    \/ BundleCallAny
    \/ \E outcome \in ClientOutcomes : BundleFetch(outcome)
    \/ BundleConvert

SpecBundle == BundleInit /\ [][NextBundle]_vars

(***************************************************************************)
(* The exception classes (exceptions.py), the GraphQL client               *)
(* (utils/github_client.py:128-269) and the starred list tool called with  *)
(* a username, down to the HTTP replies.                                   *)
(***************************************************************************)
Exc(type, msg) == [type |-> type, msg |-> msg]

\* exceptions.py:39, 63, 86, 101: the base class of each exception class
BaseOf(type) ==
    CASE type \in {"RateLimitError", "AuthenticationError"} -> "GitHubAPIError"
      [] type \in {"GitHubAPIError", "ValidationError"} -> "GitHubStarsMCPError"
      [] OTHER -> "Exception"

\* isinstance(e, cls), as an except clause tests it
IsInstance(type, cls) ==
    \/ type = cls
    \/ BaseOf(type) = cls
    \/ BaseOf(BaseOf(type)) = cls
    \/ cls = "Exception"

\* what the HTTP endpoint may answer to one POST
HttpReplies == {"ok", "401", "403_rate_limit", "403", "500", "graphql_errors",
                "request_error", "bad_json"}

\* github_client.py:154-195: the exception query raises for a reply (NoExc
\* when it returns the data).  The retry of lines 128-132 never fires: a
\* httpx.RequestError is turned into GitHubAPIError inside the body.
query(reply) ==
    CASE reply = "401" -> Exc("AuthenticationError", <<"Invalid GitHub token">>)
      [] reply = "403_rate_limit" ->
            Exc("RateLimitError", <<"GitHub API rate limit exceeded">>)
      [] reply = "403" -> Exc("GitHubAPIError", <<"Forbidden: ", "response text">>)
      [] reply = "500" -> Exc("GitHubAPIError", <<"HTTP 500: ", "response text">>)
      [] reply = "graphql_errors" ->
            Exc("GitHubAPIError", <<"GraphQL errors: ", "error message">>)
      [] reply = "request_error" ->
            Exc("GitHubAPIError", <<"Request failed: ", "connection refused">>)
      [] reply = "bad_json" -> Exc("JSONDecodeError", <<"Invalid JSON">>)
      [] OTHER -> NoExc

\* the viewer object of a successful current-user reply
Viewers == {"login", "no_login", "missing"}

\* github_client.py:236-269: the user returned ("none" for None), the cache
\* afterwards and the requests issued
get_current_user(cache, fresh, reply, viewer) ==
    IF cache # "none" /\ fresh
    THEN [user |-> cache, cache |-> cache, requests |-> <<>>]
    ELSE LET sent == <<[query |-> "viewer", reply |-> reply]>>
         IN  IF query(reply) # NoExc
             THEN [user |-> "none", cache |-> cache, requests |-> sent]
             ELSE IF viewer = "missing"
             THEN [user |-> "none", cache |-> cache, requests |-> sent]
             ELSE [user |-> viewer, cache |-> viewer, requests |-> sent]

\* github_client.py:197-233: GitHubClient.get_user_starred_repositories: the
\* exception it raises (NoExc when it returns a page), the cache afterwards
\* and the requests issued
client_starred_repositories(u, cache, fresh, lookup, viewer, reply) ==
    LET cu == get_current_user(cache, fresh, lookup, viewer)
        starredRequest == <<[query |-> "starred", reply |-> reply]>>
    IN  IF Strip(u) # <<>>
        THEN [exc |-> query(reply), cache |-> cache, requests |-> starredRequest]
        ELSE IF cu.user = "none"
        THEN [exc |-> Exc("AuthenticationError",
                          <<"Failed to get authenticated user information">>),
              cache |-> cu.cache, requests |-> cu.requests]
        ELSE IF cu.user = "no_login"
        THEN [exc |-> Exc("AuthenticationError",
                          <<"Current user information is incomplete">>),
              cache |-> cu.cache, requests |-> cu.requests]
        ELSE [exc |-> query(reply), cache |-> cu.cache,
              requests |-> cu.requests \o starredRequest]

\* except clauses that re-raise AuthenticationError only
StarredExceptAuthOnly(e) ==
    IF IsInstance(e.type, "AuthenticationError") THEN e
    ELSE Exc("GitHubAPIError", <<"Failed to get starred repositories: ">> \o e.msg)

\* starred_repo_list.py:113-121: what leaves the tool when e is raised inside
\* its try block
StarredExcept(e) ==
    IF IsInstance(e.type, "AuthenticationError") THEN e
    ELSE IF IsInstance(e.type, "GitHubAPIError") THEN e
    ELSE Exc("GitHubAPIError", <<"Failed to get starred repositories: ">> \o e.msg)

\* the kind of outcome of the client call, for the tool's conversion
OutcomeOf(e) ==
    IF e = NoExc THEN "page"
    ELSE IF e.type \in ClientOutcomes THEN e.type
    ELSE "Exception"

(***************************************************************************)
(* validate_github_username (common/validators.py:6-42).                   *)
(***************************************************************************)
UserChars == {"a", "-", " ", "_"}

\* every username of up to MaxUserLen characters, usernames around the
\* length limit, and a few with other letters and digits
UsernameInputs ==
    UNION {[1..n -> UserChars] : n \in 0..MaxUserLen}
    \cup {[i \in 1..n |-> "a"] : n \in (MAX_USERNAME_LEN - 1)..(MAX_USERNAME_LEN + 2)}
    \cup {[i \in 1..MAX_USERNAME_LEN + 2 |-> " "] \o <<"a">>,
          <<" ">> \o [i \in 1..MAX_USERNAME_LEN |-> "a"] \o <<" ">>,
          [i \in 1..MAX_USERNAME_LEN |-> "a"] \o <<"-">>}
    \cup {<<"Z", "9">>, <<"0", "-", "q">>, <<"a", ".", "b">>, <<"a", "-", "-", "b">>}

\* validators.py:38: valid_chars
ValidUsernameChars ==
    {"a", "b", "c", "d", "e", "f", "g", "h", "i", "j", "k", "l", "m", "n", "o", "p",
     "q", "r", "s", "t", "u", "v", "w", "x", "y", "z",
     "A", "B", "C", "D", "E", "F", "G", "H", "I", "J", "K", "L", "M", "N", "O", "P",
     "Q", "R", "S", "T", "U", "V", "W", "X", "Y", "Z",
     "0", "1", "2", "3", "4", "5", "6", "7", "8", "9", "-"}

\* a length test off by one: 39 characters are already too many
UsernameTooLongAt39(s) == Len(s) >= MAX_USERNAME_LEN

\* validators.py:26
UsernameTooLong(s) == Len(s) > MAX_USERNAME_LEN

\* validators.py:18-42: [ok, value, msg]; not ok is a ValidationError
validate_github_username(u) ==
    LET s == Strip(u)
        Rejected(msg) == [ok |-> FALSE, value |-> <<>>, msg |-> <<msg>>]
    IN  IF u = <<>> THEN Rejected("Username must be a non-empty string")
        ELSE IF s = <<>> THEN Rejected("Username cannot be empty or whitespace")
        ELSE IF UsernameTooLong(s)
        THEN Rejected("Username cannot be longer than 39 characters")
        ELSE IF s[1] = "-" \/ s[Len(s)] = "-"
        THEN Rejected("Username cannot start or end with hyphens")
        ELSE IF \E i \in 1..(Len(s) - 1) : s[i] = "-" /\ s[i + 1] = "-"
        THEN Rejected("Username cannot contain consecutive hyphens")
        ELSE IF \E i \in 1..Len(s) : s[i] \notin ValidUsernameChars
        THEN Rejected("Username can only contain alphanumeric characters and hyphens")
        ELSE [ok |-> TRUE, value |-> s, msg |-> <<>>]

\* the validator called on a string
ValidateCall(u) ==
    /\ tool = "none"
    /\ tool' = "validate"
    /\ username' = u
    /\ LET v == validate_github_username(u)
       IN  call_result' = [ok |-> v.ok,
                           type |-> IF v.ok THEN "none" ELSE "ValidationError",
                           msg |-> v.msg, value |-> v.value]
    /\ UNCHANGED <<repo_id, current_user_cache, current_user_cache_time, now, requests,
                   inner_error>>
    /\ UNCHANGED <<batchVars, bundleVars>>

(***************************************************************************)
(* get_user_starred_repositories (starred_repo_list.py:36-121) called with *)
(* a username and no cursor.                                               *)
(***************************************************************************)
\* the usernames the tool is called with: none, blank, well-formed, and one
\* for each rule of the validator
ToolUsernames ==
    {<<>>, <<" ">>, <<"a">>, <<" ", "a">>, <<"-", "a">>, <<"a", "-">>,
     <<"a", "-", "-", "a">>, <<"a", "_">>,
     [i \in 1..MAX_USERNAME_LEN + 1 |-> "a"]}

\* a data source of one page
OnePage(edges) == <<[edges |-> edges, hasNextPage |-> FALSE, endCursor |-> 1]>>

\* no such user, one repository, one repository whose name has no slash
ToolSources == {<<>>, OnePage(<<CanonEdge(1)>>), OnePage(<<Edge(1, <<"a">>)>>)}

\* one call of the tool: fresh says whether a cached viewer is younger than
\* _cache_ttl (the clock is left out of this call), lookup and viewer are the reply to the current-user query,
\* reply is the reply to the starred repositories query
ListCall(u, fresh, lookup, viewer, reply) ==
    /\ tool \in {"none", "list"}
    /\ tool' = "list"
    /\ username' = u
    /\ LET c == client_starred_repositories(u, current_user_cache, fresh, lookup,
                                            viewer, reply)
           page == PageAt(source, 0)
           \* the exception raised inside the try block of lines 58-111
           e == IF github_client = "none"
                THEN Exc("AuthenticationError", <<"GitHub client not initialized">>)
                ELSE IF c.exc # NoExc THEN c.exc
                ELSE IF \E k \in 1..Len(page.edges) : ~HasSlash(page.edges[k].nameWithOwner)
                THEN Exc("ValueError", <<"not enough values to unpack (expected 2, got 1)">>)
                ELSE NoExc
           r == get_user_starred_repositories(github_client, OutcomeOf(c.exc), page)
           x == StarredExcept(e)
       IN  /\ inner_error' = e
           /\ current_user_cache' = IF github_client = "none" THEN current_user_cache
                                    ELSE c.cache
           /\ requests' = IF github_client = "none" THEN <<>> ELSE c.requests
           /\ call_result' = IF e = NoExc
                             THEN [ok |-> TRUE, type |-> "none", msg |-> <<>>,
                                   value |-> r.repositories]
                             ELSE [ok |-> FALSE, type |-> x.type, msg |-> x.msg,
                                   value |-> <<>>]
    /\ UNCHANGED <<repo_id, current_user_cache_time, now>>
    /\ UNCHANGED <<batchVars, bundleVars>>

\* a caller invokes the tool.  With a username only the starred query is
\* sent; without one the viewer comes from the cache, or the current-user
\* query fails, or it succeeds with some viewer and the starred query follows
ListCallAny ==
    /\ tool \in {"none", "list"}
    /\ \E u \in ToolUsernames :
          IF Strip(u) # <<>>
          THEN \E reply \in HttpReplies : ListCall(u, TRUE, "ok", "login", reply)
          ELSE \/ /\ current_user_cache # "none"
                  /\ \E reply \in HttpReplies : ListCall(u, TRUE, "ok", "login", reply)
               \/ \E lookup \in HttpReplies \ {"ok"} :
                     ListCall(u, FALSE, lookup, "missing", "ok")
               \/ \E viewer \in Viewers, reply \in HttpReplies :
                     ListCall(u, FALSE, "ok", viewer, reply)

(***************************************************************************)
(* get_repo_details (tools/repo_details.py:20-96) and the decorator        *)
(* handle_github_api_errors (common/error_handlers.py:16-43).              *)
(***************************************************************************)
\* error_handlers.py:25-41: what leaves the wrapper when e leaves the function
handle_github_api_errors(e, operation_name) ==
    IF IsInstance(e.type, "ValidationError") THEN e
    ELSE IF IsInstance(e.type, "GitHubAPIError") THEN e
    ELSE Exc("GitHubAPIError", <<"Failed to ", operation_name, ": ">> \o e.msg)

\* batch_repo_details.py:50-108 on an identifier nobody validated: unpacking
\* split("/", 1) raises ValueError when there is no slash, which line 106
\* catches before any request; otherwise the README request is issued for
\* whatever the two parts are
fetch_single_repository_details(id, kind) ==
    IF ~HasSlash(id)
    THEN [result |-> NoneResult, requests |-> <<>>]
    ELSE [result |-> FetchResult(kind),
          requests |-> <<[query |-> "readme", reply |-> kind]>>]

\* a test of the result that never fires: None is handed to the caller
ResultMissingIgnored(r) == FALSE

\* repo_details.py:52  result is None
ResultMissing(r) == r = NoneResult

\* repo_details.py:38-56 under the decorator of line 20.  Semaphore(1) is
\* private to the call, so the fetch never waits for it.
DetailsCall(id, kind) ==
    /\ tool = "none"
    /\ tool' = "details"
    /\ repo_id' = id
    /\ LET f == fetch_single_repository_details(id, kind)
           \* github_helpers.py:25-26, repo_details.py:52-53
           e == IF github_client = "none"
                THEN Exc("GitHubAPIError", <<"GitHub client not initialized">>)
                ELSE IF ResultMissing(f.result)
                THEN Exc("GitHubAPIError", <<"Failed to fetch details for repository: ">> \o id)
                ELSE NoExc
           x == handle_github_api_errors(e, "get repository details")
       IN  /\ inner_error' = e
           /\ requests' = IF github_client = "none" THEN <<>> ELSE f.requests
           /\ call_result' = IF e = NoExc
                             THEN [ok |-> TRUE, type |-> "none", msg |-> <<>>,
                                   value |-> <<f.result>>]
                             ELSE [ok |-> FALSE, type |-> x.type, msg |-> x.msg,
                                   value |-> <<>>]
    /\ UNCHANGED <<username, current_user_cache, current_user_cache_time, now>>
    /\ UNCHANGED <<batchVars, bundleVars>>

(***************************************************************************)
(* The except clauses of create_starred_repo_analysis_bundle               *)
(* (analysis_bundle.py:296-304).                                           *)
(***************************************************************************)
\* what the code called inside the try block of lines 126-294 raises: the
\* starred list tool (starred_repo_list.py:113-121), the import of line 135,
\* the batch tool's validation (batch_repo_details.py:129, 134-136) and its
\* last resort (line 192)
PipelineExceptions ==
    {query("401"), query("403_rate_limit"), query("500"),
     Exc("GitHubAPIError", <<"Failed to get starred repositories: ", "Invalid JSON">>),
     Exc("ImportError", <<"cannot import name 'Repository'">>),
     Exc("ValidationError", <<"Cannot process more than 50 repositories at once">>),
     Exc("ValidationError", <<"max_concurrent must be between 1-20">>),
     Exc("GitHubAPIError", <<"Batch repository details fetch failed: ", "data">>)}

\* analysis_bundle.py:296-304: what leaves the bundle when e is raised inside
\* its try block
BundleExcept(e) ==
    IF IsInstance(e.type, "GitHubAPIError") THEN e
    ELSE Exc("GitHubAPIError", <<"Failed to create analysis bundle: ">> \o e.msg)

\* an exception is raised inside the try block and meets the except clauses
BundleRaise(e) ==
    /\ tool = "none"
    /\ tool' = "bundle_except"
    /\ inner_error' = e
    /\ LET x == BundleExcept(e)
       IN  call_result' = [ok |-> FALSE, type |-> x.type, msg |-> x.msg, value |-> <<>>]
    /\ UNCHANGED <<username, repo_id, current_user_cache, current_user_cache_time, now,
                   requests>>
    /\ UNCHANGED <<batchVars, bundleVars>>

(***************************************************************************)
(* GitHubClient.query under its retry decorator (github_client.py:128-195) *)
(* and GitHubClient.get_current_user with its clock                        *)
(* (github_client.py:236-269).                                             *)
(***************************************************************************)
\* github_client.py:131: retry_if_exception_type((httpx.RequestError,
\* httpx.TimeoutException)), tested on the exception that leaves the body
RetryIf(type) == type \in {"RequestError", "TimeoutException"}

\* the replies that are a failure of the HTTP post itself
TransportErrorReplies == {"request_error"}

\* the call has not ended: the decorator will run the body again
CallPending == call_result = NoOutcome

\* one run of the body of query for a call of the client; the decorator runs
\* the body again while the exception leaving it satisfies RetryIf and fewer
\* than STOP_AFTER_ATTEMPT runs were made
QueryAttempt(reply) ==
    /\ github_client = "client"
    /\ \/ tool = "none"
       \/ tool = "query" /\ CallPending
    /\ tool' = "query"
    /\ LET e == query(reply)
           sent == Append(requests, [query |-> "graphql", reply |-> reply])
       IN  /\ inner_error' = e
           /\ requests' = sent
           /\ call_result' =
                IF e = NoExc
                THEN [ok |-> TRUE, type |-> "none", msg |-> <<>>, value |-> <<"data">>]
                ELSE IF ~RetryIf(e.type)
                THEN [ok |-> FALSE, type |-> e.type, msg |-> e.msg, value |-> <<>>]
                ELSE IF Len(sent) < STOP_AFTER_ATTEMPT
                THEN NoOutcome
                ELSE [ok |-> FALSE, type |-> "RetryError", msg |-> e.msg, value |-> <<>>]
    /\ UNCHANGED <<username, repo_id, current_user_cache, current_user_cache_time, now>>
    /\ UNCHANGED <<batchVars, bundleVars>>

\* a cached viewer that is still returned at the age of _cache_ttl itself
CacheFreshInclusive(time, cached_at) ==
    cached_at # -1 /\ time - cached_at <= CACHE_TTL

\* github_client.py:246-248: the cache timestamp is set and the cached value
\* is younger than _cache_ttl
CacheFresh(time, cached_at) ==
    cached_at # -1 /\ time - cached_at < CACHE_TTL

\* one call of get_current_user at the present time; reply and viewer are
\* what the endpoint answers if it is asked
CurrentUserCall(reply, viewer) ==
    /\ github_client = "client"
    /\ tool \in {"none", "current_user"}
    /\ tool' = "current_user"
    /\ LET cu == get_current_user(current_user_cache,
                                  CacheFresh(now, current_user_cache_time),
                                  reply, viewer)
           asked == cu.requests # <<>>
       IN  /\ requests' = cu.requests
           /\ current_user_cache' = cu.cache
           \* line 259: set together with the cache
           /\ current_user_cache_time' =
                IF asked /\ cu.user # "none" THEN now ELSE current_user_cache_time
           \* lines 267-269: whatever the query raised is caught
           /\ inner_error' = IF asked THEN query(reply) ELSE NoExc
           /\ call_result' = [ok |-> TRUE, type |-> "none", msg |-> <<>>,
                              value |-> <<cu.user>>]
    /\ UNCHANGED <<username, repo_id, now>>
    /\ UNCHANGED <<batchVars, bundleVars>>

\* the failed lookups drawn: an AuthenticationError, a transport failure
\* turned into GitHubAPIError, and an exception that is no GitHubAPIError
LookupFailures == {"401", "request_error", "bad_json"}

\* time passes after a call: just less than _cache_ttl, or _cache_ttl
Tick(d) ==
    /\ tool = "current_user"
    /\ now + d <= MaxTime
    /\ now' = now + d
    /\ UNCHANGED <<tool, username, repo_id, current_user_cache, current_user_cache_time,
                   requests, inner_error, call_result>>
    /\ UNCHANGED <<batchVars, bundleVars>>

ToolsInit ==
    /\ BatchInit
    /\ BundleIdle
    /\ ToolsIdle
    /\ source \in ToolSources

NextTools ==
    \/ \E u \in UsernameInputs : ValidateCall(u)
    \/ ListCallAny
    \/ \E id \in Names, kind \in ReplyKinds : DetailsCall(id, kind)
    \/ \E e \in PipelineExceptions : BundleRaise(e)
    \/ \E reply \in HttpReplies : QueryAttempt(reply)
    \/ \E viewer \in Viewers : CurrentUserCall("ok", viewer)
    \/ \E reply \in LookupFailures : CurrentUserCall(reply, "missing")
    \/ \E d \in {CACHE_TTL - 1, CACHE_TTL} : Tick(d)

SpecTools == ToolsInit /\ [][NextTools]_vars

(***************************************************************************)
(* Step 4 of the bundle, the aggregation (analysis_bundle.py:204-260),     *)
(* over the repository objects the batch fetcher builds.                   *)
(***************************************************************************)
\* github_client.py:41, 46-64: the stargazerCount, primaryLanguage, languages
\* and repositoryTopics the data source reports for repository i
StargazerCount(i) == 10 * i
PrimaryLanguage(i) == IF i = MaxIds THEN "Go" ELSE "Python"
Languages(i) == IF i = MaxIds THEN <<"Go", "C">> ELSE <<"Python">>
RepositoryTopics(i) == <<"mcp">>

\* batch_repo_details.py:57-71: the repository object of a fetched detail is
\* made from the identifier alone
BasicRepoData(repo_name) ==
    [name_with_owner |-> repo_name, stargazer_count |-> 0,
     primary_language |-> "NoneVal", languages |-> <<>>, repository_topics |-> <<>>]

RECURSIVE SumOf(_)
SumOf(q) == IF q = <<>> THEN 0 ELSE Head(q) + SumOf(Tail(q))

MaxOf(q) == CHOOSE m \in {q[k] : k \in 1..Len(q)} : \A k \in 1..Len(q) : q[k] <= m
MinOf(q) == CHOOSE m \in {q[k] : k \in 1..Len(q)} : \A k \in 1..Len(q) : m <= q[k]

\* sorted(q): the element at place p is the one with fewer than p elements
\* before it in the order (ties by position)
SortedSeq(q) ==
    LET Before(i, j) == q[i] < q[j] \/ (q[i] = q[j] /\ i < j)
        Place(i) == 1 + Cardinality({j \in 1..Len(q) : Before(j, i)})
    IN  [p \in 1..Len(q) |-> q[CHOOSE i \in 1..Len(q) : Place(i) = p]]

\* twice statistics.median(q), to stay in the integers
Median2(q) ==
    LET t == SortedSeq(q)
        n == Len(q)
    IN  IF n % 2 = 1 THEN 2 * t[(n + 1) \div 2] ELSE t[n \div 2] + t[n \div 2 + 1]

\* analysis_bundle.py:250-260 (the median doubled)
star_statistics(star_counts) ==
    IF star_counts = <<>>
    THEN [total_stars |-> 0, median2 |-> 0, max_stars |-> 0, min_stars |-> 0]
    ELSE [total_stars |-> SumOf(star_counts), median2 |-> Median2(star_counts),
          max_stars |-> MaxOf(star_counts), min_stars |-> MinOf(star_counts)]

\* Counter(items).most_common(n): [name, count] by count, largest first, ties
\* in first-seen order, the first n
most_common(items, n) ==
    LET names == Dedupe(items)
        Count(nm) == Cardinality({k \in 1..Len(items) : items[k] = nm})
        Before(i, j) == Count(names[i]) > Count(names[j])
                        \/ (Count(names[i]) = Count(names[j]) /\ i < j)
        Place(i) == 1 + Cardinality({j \in 1..Len(names) : Before(j, i)})
        NameAt(p) == names[CHOOSE i \in 1..Len(names) : Place(i) = p]
        m == IF Len(names) < n THEN Len(names) ELSE n
    IN  [p \in 1..m |-> [name |-> NameAt(p), count |-> Count(NameAt(p))]]

RECURSIVE Flatten(_)
Flatten(qs) == IF qs = <<>> THEN <<>> ELSE Head(qs) \o Flatten(Tail(qs))

\* analysis_bundle.py:209-218: primary_language, if any, then languages
CollectLanguages(repos) ==
    Flatten([k \in 1..Len(repos) |->
        (IF repos[k].primary_language = "NoneVal" THEN <<>>
         ELSE <<repos[k].primary_language>>) \o repos[k].languages])

\* analysis_bundle.py:204-260: the statistics of a list of repository objects
Aggregate(repos) ==
    [language_distribution |-> most_common(CollectLanguages(repos), TOP_LANGUAGES),
     topic_distribution |->
        most_common(Flatten([k \in 1..Len(repos) |-> repos[k].repository_topics]),
                    TOP_TOPICS),
     star_statistics |->
        star_statistics([k \in 1..Len(repos) |-> repos[k].stargazer_count])]

\* the repository objects of the starred repositories as the batch fetcher
\* builds them, which step 4 reads
BundleRepositories ==
    [k \in 1..Len(starred.repositories) |->
        BasicRepoData(starred.repositories[k].name_with_owner)]

\* the same repositories with what the data source reported for them
SourceRepositories ==
    [k \in 1..Len(starred.repositories) |->
        [name_with_owner |-> starred.repositories[k].name_with_owner,
         stargazer_count |-> StargazerCount(starred.repositories[k].repo_id),
         primary_language |-> PrimaryLanguage(starred.repositories[k].repo_id),
         languages |-> Languages(starred.repositories[k].repo_id),
         repository_topics |-> RepositoryTopics(starred.repositories[k].repo_id)]]

(***************************************************************************)
(* Properties of the batch tool.                                           *)
(***************************************************************************)
\* a well-formed 'owner/repo' identifier, stated on the string itself: between
\* its first and last non-blank characters there is exactly one slash, and it
\* is neither the first nor the last of them
WellFormedId(n) ==
    \E i, j \in 1..Len(n) :
        /\ i <= j
        /\ \A k \in 1..(i - 1) : n[k] = " "
        /\ \A k \in (j + 1)..Len(n) : n[k] = " "
        /\ n[i] \notin {" ", "/"}
        /\ n[j] \notin {" ", "/"}
        /\ Cardinality({k \in i..j : n[k] = "/"}) = 1

AllWellFormed(names) == \A i \in 1..Len(names) : WellFormedId(names[i])

Finished == bpc \in {"returned", "raised"}

\* the identifier list was rejected by the validator (not max_concurrent)
NamesRejected ==
    /\ bpc = "raised"
    /\ berror.type = "ValidationError"
    /\ berror.msg # "max_concurrent must be between 1-20"

\* C1: at every moment of a batch call the number of per-repository fetches
\* inside "async with semaphore" (README fetch included) is at most the
\* concurrency limit, which lies in 1..20 once tasks exist.
C1_ConcurrencyBound ==
    /\ Cardinality(Holding) <= max_concurrent
    /\ Tasks # {} => max_concurrent \in MIN_CONCURRENT..MAX_CONCURRENT

\* C1 witness: every slot is taken by a fetch in flight and another task waits
C1_Witness ==
    /\ bpc = "gather"
    /\ Cardinality(Holding) = max_concurrent
    /\ \A i \in Holding : tpc[i] = "readme"
    /\ \E i \in Tasks : tpc[i] = "new"

\* C2: when the fetch of exactly one of N distinct valid identifiers raises
\* and all others succeed, the batch returns normally with exactly N-1
\* entries, none of them for the failing item, whose single fetch was None.
C2_PartialFailure ==
    \A k \in Tasks :
        ( /\ Finished
          /\ ~cancel_requested
          /\ Len(repository_names) = Len(unique_names)
          /\ treply[k] = "raise"
          /\ \A i \in Tasks \ {k} : treply[i] = "text" )
        => /\ bpc = "returned"
           /\ tresult[k] = NoneResult
           /\ Len(bresult.repository_details) = Len(unique_names) - 1
           /\ \A d \in 1..Len(bresult.repository_details) :
                  bresult.repository_details[d].name # unique_names[k]

\* C3: a single fetch whose README call succeeded with content returns a
\* RepositoryDetails carrying exactly that content.
C3_ReadmeContent ==
    \A i \in Tasks :
        (tpc[i] = "done" /\ treply[i] = "text")
        => tresult[i] = [kind |-> "details", readme_content |-> ReadmeDict("text").content]

C5_ValidationBounds ==
    bpc # "idle" =>
        /\ ( /\ AllWellFormed(repository_names)
             /\ Len(repository_names) \in 1..SPEC_MAX_BATCH )
           => ~NamesRejected
        /\ Len(repository_names) \in {0, SPEC_MAX_BATCH + 1} => NamesRejected

\* C6: a slot is held exactly by the tasks inside "async with semaphore": the
\* semaphore's value plus the holders is always the limit (no leak, no double
\* release), and when the call has returned or raised every slot is free.
C6_SlotsReleased ==
    /\ Tasks # {} => semaphore + Cardinality(Holding) = max_concurrent
    /\ semaphore >= 0
    /\ semaphore <= max_concurrent
    /\ Finished => Holding = {}
    /\ (Finished /\ Tasks # {}) => semaphore = max_concurrent

\* C6 witness: the call has raised after one fetch raised and another task
\* was cancelled while it held a slot, and all slots are free
C6_Witness ==
    /\ bpc = "raised"
    /\ semaphore = max_concurrent
    /\ \E j \in Tasks : tpc[j] = "done" /\ treply[j] = "raise"
    /\ \E i \in Tasks : tpc[i] = "cancelled"
    /\ readme_calls > Cardinality({i \in Tasks : tpc[i] = "done"})

\* C7: when every fetch of a batch failed by a transport failure the call
\* does not return a result; unless the caller was cancelled it raises
\* GitHubAPIError.
C7_TotalFailure ==
    ( /\ Finished
      /\ Tasks # {}
      /\ \A i \in Tasks : treply[i] \in TransportFailures )
    => /\ bpc = "raised"
       /\ ~cancel_requested => berror.type = "GitHubAPIError"

\* C7 witness: two fetches failed, one inside the client, and the call raised
C7_Witness ==
    /\ bpc = "raised"
    /\ berror.type = "GitHubAPIError"
    /\ Len(unique_names) >= 2
    /\ \A i \in Tasks : treply[i] \in TransportFailures
    /\ \E i \in Tasks : treply[i] = "error"

(***************************************************************************)
(* Properties of the starred list tool and the analysis bundle.            *)
(***************************************************************************)
\* the bundle has left step 1 with a list of starred repositories
CollectionOver ==
    /\ op = "bundle"
    /\ upc \in {"convert", "details", "returned", "raised"}
    /\ starred.ok

\* C8: the bundle's collection requests each page with the cursor of the
\* page before, has stopped only when the last page reported no next page or
\* the cap was reached, and never retains more than the cap.
C8_PaginationStops ==
    CollectionOver =>
        /\ page_requests[1] = 0
        /\ \A k \in 2..Len(page_requests) : page_requests[k] = PageAt(source, k - 2).endCursor
        /\ starred.has_next_page => Len(starred.repositories) >= max_repositories
        /\ Len(starred.repositories) <= max_repositories

\* the repository ids of both pages, each once, in first-seen order
BothPagesIds ==
    Dedupe([k \in 1..(Len(source[1].edges) + Len(source[2].edges)) |->
               IF k <= Len(source[1].edges) THEN source[1].edges[k].id
               ELSE source[2].edges[k - Len(source[1].edges)].id])

\* C9: with a first page that has a next page, a second page that has none
\* and fewer repositories than the cap, the bundle requests the second page
\* with the first page's cursor and analyses the repositories of both pages,
\* deduplicated by id, in first-seen order.
C9_BothPages ==
    ( /\ CollectionOver
      /\ source[1].hasNextPage
      /\ ~source[2].hasNextPage
      /\ Len(BothPagesIds) < max_repositories )
    => /\ page_requests = <<0, source[1].endCursor>>
       /\ [k \in 1..Len(starred.repositories) |-> starred.repositories[k].repo_id]
             = BothPagesIds

\* C10: every repository the starred list tool builds from an edge has
\* name_with_owner = owner + "/" + name.
C10_NameWithOwner ==
    \A k \in 1..Len(starred.repositories) :
        starred.repositories[k].name_with_owner
            = starred.repositories[k].owner \o <<"/">> \o starred.repositories[k].name

(***************************************************************************)
(* Properties of the client, the username validator and the starred list   *)
(* tool called with a username.                                            *)
(***************************************************************************)
\* part occurs in msg as a run of consecutive pieces
Contains(msg, part) ==
    \E k \in 0..(Len(msg) - Len(part)) : \A j \in 1..Len(part) : msg[k + j] = part[j]

GitHubAPIErrorTypes == {"AuthenticationError", "RateLimitError", "GitHubAPIError"}

\* C11: an AuthenticationError, RateLimitError or other GitHubAPIError raised
\* inside the starred list tool leaves it unchanged (same type and message),
\* any other exception leaves it as a GitHubAPIError whose message contains
\* the original message, and no failure becomes a normal return value.
C11_ErrorsPropagate ==
    (tool = "list" /\ inner_error # NoExc) =>
        /\ ~call_result.ok
        /\ inner_error.type \in GitHubAPIErrorTypes
              => /\ call_result.type = inner_error.type
                 /\ call_result.msg = inner_error.msg
        /\ inner_error.type \notin GitHubAPIErrorTypes
              => /\ call_result.type = "GitHubAPIError"
                 /\ Contains(call_result.msg, inner_error.msg)

\* C11 witness: the client raised on an undecodable body and the tool raised
\* a GitHubAPIError around it
C11_Witness ==
    /\ tool = "list"
    /\ inner_error.type = "JSONDecodeError"
    /\ \E k \in 1..Len(requests) : requests[k].reply = "bad_json"
    /\ call_result.type = "GitHubAPIError"
    /\ call_result.msg # inner_error.msg

\* C13: a listing through the client fails with AuthenticationError on a
\* 401 reply, with RateLimitError on a rate-limit 403 reply and with
\* GitHubAPIError on any other failed reply, whether the username was given
\* or was resolved through the current-user lookup.
C13_ClientErrors ==
    (tool = "list" /\ github_client = "client") =>
        \A k \in 1..Len(requests) :
            /\ requests[k].reply = "401" => inner_error.type = "AuthenticationError"
            /\ requests[k].reply = "403_rate_limit" => inner_error.type = "RateLimitError"
            /\ requests[k].reply \notin {"ok", "401", "403_rate_limit"}
                  => inner_error.type = "GitHubAPIError"

\* the username rules, on the trimmed string
UsernameRulesHold(s) ==
    /\ s # <<>>
    /\ Len(s) <= MAX_USERNAME_LEN
    /\ \A i \in 1..Len(s) : s[i] \in ValidUsernameChars
    /\ s[1] # "-"
    /\ s[Len(s)] # "-"
    /\ \A i \in 1..(Len(s) - 1) : ~(s[i] = "-" /\ s[i + 1] = "-")

\* C14: validate_github_username returns the trimmed string exactly when the
\* trimmed string satisfies every username rule, and raises ValidationError
\* otherwise.
C14_UsernameRules ==
    tool = "validate" =>
        /\ call_result.ok <=> UsernameRulesHold(Strip(username))
        /\ call_result.ok => call_result.value = Strip(username)
        /\ ~call_result.ok => call_result.type = "ValidationError"

\* C14 witness: a username of exactly 39 characters between blanks is
\* accepted and returned trimmed
C14_Witness ==
    /\ tool = "validate"
    /\ call_result.ok
    /\ Len(username) > MAX_USERNAME_LEN
    /\ Len(call_result.value) = MAX_USERNAME_LEN

\* C15: the starred list tool called with a non-empty username that breaks
\* a username rule raises ValidationError and sends nothing to the data
\* source; an empty username is not a validation error.
C15_UsernameChecked ==
    tool = "list" =>
        /\ (username # <<>> /\ ~UsernameRulesHold(Strip(username)))
              => (call_result.type = "ValidationError" /\ requests = <<>>)
        /\ username = <<>> => call_result.type # "ValidationError"

C16_ConcurrencyChecked ==
    /\ (bpc # "idle" /\ max_concurrent \notin 1..20)
          => /\ bpc = "raised"
             /\ berror.type = "ValidationError"
             /\ readme_calls = 0
    /\ (op = "bundle" /\ concurrent_requests \notin 1..20)
          => /\ upc = "raised"
             /\ uerror.type = "ValidationError"
             /\ page_requests = <<>>
    /\ DEFAULT_CONCURRENT = 10

\* C17: get_repo_details raises GitHubAPIError whenever its one README fetch
\* raised or reported an error, and returns only after a fetch that did not
\* fail.
C17_DetailsFailure ==
    tool = "details" =>
        /\ (\E k \in 1..Len(requests) : requests[k].reply \in TransportFailures)
              => (~call_result.ok /\ call_result.type = "GitHubAPIError")
        /\ call_result.ok
              => (requests # <<>> /\ requests[1].reply \notin TransportFailures)

\* C17 witness: the README request raised and the tool raised GitHubAPIError
\* naming the repository
C17_Witness ==
    /\ tool = "details"
    /\ requests # <<>>
    /\ requests[1].reply = "raise"
    /\ call_result.type = "GitHubAPIError"
    /\ Contains(call_result.msg, repo_id)

\* 'owner/repo': exactly one slash, with something on either side
OwnerRepoForm(id) ==
    /\ Cardinality({i \in 1..Len(id) : id[i] = "/"}) = 1
    /\ id[1] # "/"
    /\ id[Len(id)] # "/"

\* C18: get_repo_details called with a repo_id that is not of the form
\* 'owner/repo' raises ValidationError and sends nothing to the data source.
C18_RepoIdChecked ==
    (tool = "details" /\ ~OwnerRepoForm(repo_id)) =>
        /\ call_result.type = "ValidationError"
        /\ requests = <<>>

(***************************************************************************)
(* Properties of the bundle's statistics.                                  *)
(***************************************************************************)
\* the bundle call is over and step 1 had returned starred repositories
BundleOver ==
    /\ op = "bundle"
    /\ upc \in {"returned", "raised"}
    /\ starred.ok

\* C19: the bundle is returned, and its total_stars, max_stars, min_stars and
\* median_stars are the sum, maximum, minimum and median of the stargazer
\* counts the data source reported for the analysed repositories (all 0 when
\* there is none).
C19_StarStatistics ==
    BundleOver =>
        /\ upc = "returned"
        /\ Aggregate(BundleRepositories).star_statistics
              = star_statistics([k \in 1..Len(SourceRepositories) |->
                                    SourceRepositories[k].stargazer_count])

\* the occurrences of a name as primary language or as an entry of languages
LanguageOccurrences(nm) ==
    SumOf([k \in 1..Len(SourceRepositories) |->
              (IF SourceRepositories[k].primary_language = nm THEN 1 ELSE 0)
              + Cardinality({j \in 1..Len(SourceRepositories[k].languages) :
                                SourceRepositories[k].languages[j] = nm})])

\* C20: the bundle is returned, each language of its distribution carries
\* the number of its occurrences as primary language or entry of languages
\* over the analysed repositories (topics likewise), every language with an
\* occurrence is listed while fewer than 10 are, the list is sorted by count,
\* largest first, and holds at most 10 entries, the topic list at most 15.
C20_Distributions ==
    BundleOver =>
        LET dist == Aggregate(BundleRepositories).language_distribution
            topics == Aggregate(BundleRepositories).topic_distribution
        IN  /\ upc = "returned"
            /\ \A p \in 1..Len(dist) : dist[p].count = LanguageOccurrences(dist[p].name)
            /\ \A nm \in {"Python", "Go", "C"} :
                  (LanguageOccurrences(nm) > 0 /\ Len(dist) < 10)
                     => \E p \in 1..Len(dist) : dist[p].name = nm
            /\ \A p \in 1..(Len(dist) - 1) : dist[p].count >= dist[p + 1].count
            /\ Len(dist) <= 10
            /\ Len(topics) <= 15
            /\ topics = Aggregate(SourceRepositories).topic_distribution

(***************************************************************************)
(* Properties of the batch tool's result: order, repeatability, counts.    *)
(***************************************************************************)

\* the identifiers of the call, trimmed, as line 36 appends them
TrimmedNames == [i \in 1..Len(repository_names) |-> Strip(repository_names[i])]

\* the position of the first occurrence of n in the trimmed input list
FirstOccurrence(n) ==
    CHOOSE i \in 1..Len(TrimmedNames) :
        /\ TrimmedNames[i] = n
        /\ \A j \in 1..(i - 1) : TrimmedNames[j] # n

\* the tasks whose README call did not raise, in task order
SucceededTasks ==
    SelectSeq([i \in 1..Len(unique_names) |-> i], LAMBDA i : treply[i] # "raise")

\* a batch whose tasks all ran to their end without a cancellation
BatchCompleted == Finished /\ ~cancel_requested /\ Tasks # {}

\* C21: a completed batch returns a result whose successful entries stand in
\* the order of first occurrence of their identifiers in the input list,
\* whatever the order in which the fetches finished.
C21_InputOrder ==
    BatchCompleted
    => /\ bpc = "returned"
       /\ \A i, j \in 1..Len(unique_names) :
              i < j => FirstOccurrence(unique_names[i]) < FirstOccurrence(unique_names[j])
       /\ Len(bresult.repository_details) = Len(SucceededTasks)
       /\ \A k \in 1..Len(SucceededTasks) :
              bresult.repository_details[k].name = unique_names[SucceededTasks[k]]

SpecLive ==
    /\ Init
    /\ [][Next]_vars
    /\ WF_vars(BatchSpawn)
    /\ WF_vars(BatchCollect)
    /\ \A i \in 1..MaxTasks :
          /\ WF_vars(i \in Tasks /\ TaskAcquire(i))
          /\ WF_vars(i \in Tasks /\ TaskIssue(i))
          /\ WF_vars(i \in Tasks /\ \E kind \in ReplyKinds : TaskReadme(i, kind))
          /\ WF_vars(i \in Tasks /\ TaskCancelled(i))

\* the call is past its argument checks and has not yet left the function
BatchRunning == bpc \in {"starting", "gather"}

\* C27: a batch call that passed its argument checks eventually returns or
\* raises, for every limit in 1..20; and while a task waits for a slot that
\* is not free, some task holds one (which it releases), so no state is a
\* deadlock of tasks waiting for a slot nobody gives back.
C27_Terminates ==
    /\ [](\A i \in Tasks :
            (bpc = "gather" /\ tpc[i] = "new" /\ ~SemAvailable(semaphore))
            => Holding # {})
    /\ (BatchRunning ~> Finished)

\* C27 witness: a batch of more tasks than slots has raised at its end
\* without any cancellation, every task having had its turn
C27_Witness ==
    /\ Finished
    /\ ~cancel_requested
    /\ max_concurrent < Cardinality(Tasks)
    /\ \A i \in Tasks : tpc[i] = "done"

\* the result the documented batch gives when every README is found: a
\* function of the identifier list alone
ResultOfList(names) ==
    LET u == Dedupe([i \in 1..Len(names) |-> Strip(names[i])])
    IN  [k \in 1..Len(u) |->
            [name |-> u[k], readme_content |-> ReadmeDict("text").content]]

\* C23: with a data source that answers every repository with the same README
\* content, a completed batch returns entries that depend on the identifier
\* list alone, not on the concurrency limit or the interleaving, so two calls
\* with the same list give identical results.
C23_Idempotent ==
    (BatchCompleted /\ \A i \in Tasks : treply[i] = "text")
    => /\ bpc = "returned"
       /\ bresult.repository_details = ResultOfList(repository_names)

\* C24: a completed batch returns a result whose total_count is the number of
\* distinct trimmed identifiers (one task each), whose success_count is the
\* number of entries and whose success_count + error_count is total_count.
C24_Counts ==
    BatchCompleted
    => /\ bpc = "returned"
       /\ Len(tpc) = Cardinality({TrimmedNames[i] : i \in 1..Len(TrimmedNames)})
       /\ bresult.total_count = Len(tpc)
       /\ bresult.success_count = Len(bresult.repository_details)
       /\ bresult.success_count + bresult.error_count = bresult.total_count

(***************************************************************************)
(* Properties of GitHubClient.query and GitHubClient.get_current_user.     *)
(***************************************************************************)

\* C25: a call of query that has ended made at most 3 attempts, made a
\* further attempt only after a transport error, and if its last attempt
\* ended in a transport error it was the third and the call failed with
\* GitHubAPIError.
C25_Retries ==
    (tool = "query" /\ ~CallPending)
    => LET n == Len(requests)
       IN  /\ n <= STOP_AFTER_ATTEMPT
           /\ \A k \in 1..(n - 1) : requests[k].reply \in TransportErrorReplies
           /\ requests[n].reply \in TransportErrorReplies
              => /\ n = STOP_AFTER_ATTEMPT
                 /\ call_result.type = "GitHubAPIError"

\* a step that is one call of get_current_user (the clock stands still)
CurrentUserStep == tool' = "current_user" /\ now' = now

\* C26: a call of get_current_user never raises; with a cached viewer younger
\* than 300 seconds it returns that viewer and sends nothing; otherwise it
\* sends exactly one query; a lookup that failed or gave no viewer returns
\* None and leaves the cache and its timestamp as they were; a lookup that
\* gave a viewer caches it with the time of the call.
C26_CurrentUserCache ==
    [][CurrentUserStep
        => LET cached == current_user_cache # "none" /\ current_user_cache_time # -1
               age == now - current_user_cache_time
               user == call_result'.value[1]
           IN  /\ call_result'.ok
               /\ call_result'.type = "none"
               /\ (cached /\ age < CACHE_TTL)
                  => /\ requests' = <<>>
                     /\ user = current_user_cache
                     /\ UNCHANGED <<current_user_cache, current_user_cache_time>>
               /\ ~(cached /\ age < CACHE_TTL)
                  => /\ Len(requests') = 1
                     /\ requests'[1].reply # "ok" => user = "none"
                     /\ user = "none"
                        => UNCHANGED <<current_user_cache, current_user_cache_time>>
                     /\ user # "none"
                        => /\ current_user_cache' = user
                           /\ current_user_cache_time' = now]_vars

\* C26 witness: a call one second before the cached viewer expires was
\* answered from the cache without a query
C26_Witness ==
    /\ tool = "current_user"
    /\ current_user_cache = "login"
    /\ now - current_user_cache_time = CACHE_TTL - 1
    /\ requests = <<>>
    /\ call_result.value = <<"login">>

\* a call at the very age of 300 seconds sent a new query, which failed, and
\* returned None with the cache left alone
ExpiredLookupReached ==
    /\ tool = "current_user"
    /\ current_user_cache = "login"
    /\ now - current_user_cache_time = CACHE_TTL
    /\ Len(requests) = 1
    /\ call_result.value = <<"none">>

(***************************************************************************)
(* Steps 2 to 4 of the bundle (analysis_bundle.py:186-284): the list       *)
(* handed to the batch tool, the processing summary and the percentages.   *)
(***************************************************************************)
\* analysis_bundle.py:187: the identifiers of the starred repositories
BundleRepositoryNames ==
    [k \in 1..Len(starred.repositories) |-> starred.repositories[k].name_with_owner]

\* a first page as long as the query allows
FullPage == [i \in 1..PAGE_SIZE |-> PadName(1)]

\* batch_repo_details.py:159-181: the response the batch tool computes for a
\* list of valid identifiers whose README fetches are all answered
DetailsResponse(names) ==
    LET u == Dedupe(names)
        results == [i \in 1..Len(u) |-> FetchResult("text")]
        ok == SelectSeq(results, LAMBDA r : r.kind = "details")
    IN  [repository_details |-> ok,
         total_count |-> Len(u),
         success_count |-> Len(ok),
         error_count |-> Len(u) - Len(ok)]

\* analysis_bundle.py:262-271 and 277: the processing summary and the
\* bundle's total_repositories
processing_summary(total_count, details_response) ==
    LET details == details_response.repository_details
    IN  [total_requested |-> total_count,
         successfully_detailed |-> details_response.success_count,
         failed_details |-> details_response.error_count,
         with_readme |->
            Cardinality({k \in 1..Len(details) : details[k].readme_content # "NoneVal"}),
         without_readme |->
            Cardinality({k \in 1..Len(details) : details[k].readme_content = "NoneVal"}),
         total_repositories |-> Len(details)]

\* analysis_bundle.py:235, 244: round(count / n * 100, 2), in hundredths of a
\* percent (halves rounded up)
percentage(count, n) == (2 * count * 10000 + n) \div (2 * n)

\* C28: the bundle never fails on the batch validator: with no starred
\* repository it is returned (all zero) without a batch call, with some it
\* hands the batch tool a list of 1 to the maximum batch size identifiers,
\* and a page as long as the data source may return passes the validator.
C28_BatchInput ==
    BundleOver =>
        /\ starred.repositories = <<>> => (upc = "returned" /\ bpc = "idle")
        /\ starred.repositories # <<>>
           => (Len(BundleRepositoryNames) >= 1 /\ Len(BundleRepositoryNames) <= MAX_BATCH)
        /\ validate_repository_names(FullPage).ok

\* C29: the bundle is returned and its processing summary is consistent:
\* total_requested = successfully_detailed + failed_details,
\* total_repositories = successfully_detailed = the number of repositories
\* listed, and with_readme + without_readme = total_repositories (a page
\* of the data source lists a repository once).
C29_ProcessingSummary ==
    (BundleOver /\ Len(Dedupe(BundleRepositoryNames)) = Len(BundleRepositoryNames)) =>
        LET response == DetailsResponse(BundleRepositoryNames)
            summary == processing_summary(starred.total_count, response)
        IN  /\ upc = "returned"
            /\ summary.total_requested
                  = summary.successfully_detailed + summary.failed_details
            /\ summary.total_repositories = summary.successfully_detailed
            /\ summary.total_repositories = Len(response.repository_details)
            /\ summary.with_readme + summary.without_readme = summary.total_repositories

\* every entry of a distribution over n repositories has a count in 1..n and
\* a percentage above 0 and at most 100
CountsWithin(dist, n) ==
    \A p \in 1..Len(dist) :
        /\ dist[p].count >= 1
        /\ dist[p].count <= n
        /\ percentage(dist[p].count, n) > 0
        /\ percentage(dist[p].count, n) <= 100 * 100

\* C30: the bundle is returned and every entry of its language and topic
\* distributions, computed over the repositories as the data source reports
\* them, has a count between 1 and the number of repositories considered and
\* so a percentage in (0, 100].
C30_Percentages ==
    (BundleOver /\ starred.repositories # <<>>) =>
        LET n == Len(SourceRepositories)
            a == Aggregate(SourceRepositories)
        IN  /\ upc = "returned"
            /\ CountsWithin(a.language_distribution, n)
            /\ CountsWithin(a.topic_distribution, n)

=============================================================================
